---------------------------- MODULE Spec2Model ----------------------------
(***************************************************************************)
(* Model of the "Datasets & DataLoaders" notebook                          *)
(* (src/2.数据与数据集.ipynb):                                              *)
(*                                                                         *)
(*   - the CustomImageDataset class (__init__, __len__, __getitem__),      *)
(*     specification Spec;                                                 *)
(*   - train_dataloader = DataLoader(training_data, batch_size=64,         *)
(*     shuffle=True) iterated batch by batch over the 60,000 training      *)
(*     samples, specification SpecTrain (batch sizes only);                *)
(*   - the same DataLoader construction over a small dataset, with the     *)
(*     order of the samples tracked, specification SpecShuffle.            *)
(*                                                                         *)
(* Strings are sequences of one-character strings, so that os.path.join    *)
(* is computed the way posixpath computes it.                              *)
(***************************************************************************)
EXTENDS Integers, Sequences, FiniteSets, TLC

VARIABLES
    \* ---- arguments of CustomImageDataset(...) and the object's fields
    annotations_file,   \* the lines of labels.csv, each <<file name, label>>
    arg_img_dir,        \* the img_dir argument
    arg_transform,      \* the transform argument
    arg_target_transform, \* the target_transform argument
    phase,              \* "new" | "ready" | "EmptyDataError" ("unused": no dataset)
    img_labels,         \* self.img_labels: the rows of the data frame
    img_dir,            \* self.img_dir
    transform,          \* self.transform
    target_transform,   \* self.target_transform
    call,               \* the last call made on the dataset
    ret,                \* what that call returned
    seen,               \* every (idx, sample) __getitem__ has returned so far
    \* ---- train_dataloader over the 60,000 training samples
    train_served,       \* samples the current iterator has handed out
    train_active,       \* an iterator exists and has not raised StopIteration
    train_batch,        \* sizes of the batch the last next() returned
    train_passes,       \* iter(train_dataloader) calls so far
    \* ---- a shuffle=True DataLoader over a small dataset
    order,              \* the permutation the current iterator drew
    prev_order,         \* the permutation of the iterator before it
    pos,                \* samples of order already handed out
    batch,              \* the sample indices of the batch last returned
    passes              \* iter(dataloader) calls so far

dsvars == <<annotations_file, arg_img_dir, arg_transform, arg_target_transform,
            phase, img_labels, img_dir, transform, target_transform, call, ret,
            seen>>
trainvars == <<train_served, train_active, train_batch, train_passes>>
shufvars == <<order, prev_order, pos, batch, passes>>
vars == <<dsvars, trainvars, shufvars>>

-----------------------------------------------------------------------------
(* Bounds of the model *)

\* longest labels.csv, in lines
MaxLines == 3
\* iter() calls on a DataLoader
MaxPasses == 2
\* samples of the small shuffled dataset
NumSamples == 3
\* batch_size of the small shuffled DataLoader
SmallBatch == 2

(* Constants of the program *)

\* DataLoader(training_data, batch_size=64, ...)
BatchSize == 64
\* Fashion-MNIST: 60,000 training examples
TrainSize == 60000

-----------------------------------------------------------------------------
(* Python values *)

\* None, and two callables: an ordinary one, whose truth value is True, and
\* one whose truth value is False (a callable object defining __len__ or
\* __bool__, such as an empty container of transforms).
None == [name |-> "None", callable |-> FALSE, truthy |-> FALSE]
Callables == {[name |-> "f", callable |-> TRUE, truthy |-> TRUE],
              [name |-> "g", callable |-> TRUE, truthy |-> FALSE]}
Transforms == {None} \cup Callables

\* bool(x), as "if x:" evaluates it
Truthy(x) == x.truthy

\* f(x): the value remembers, in order, the callables applied to it
Apply(f, x) == [x EXCEPT !.by = Append(@, f.name)]

FileNames == {<<"a">>, <<"/", "b">>}
Labels == {0, 1}
Dirs == {<<>>, <<"d">>, <<"d", "/">>}
Lines == FileNames \X Labels

RECURSIVE SeqsUpTo(_, _)
SeqsUpTo(S, n) ==
    IF n = 0 THEN {<<>>}
    ELSE LET shorter == SeqsUpTo(S, n - 1)
         IN  shorter \cup {Append(s, x) : s \in {t \in shorter : Len(t) = n - 1}, x \in S}

Min(a, b) == IF a < b THEN a ELSE b

-----------------------------------------------------------------------------
(* Library functions the class calls *)

\* pandas.read_csv(path) with its defaults (header='infer'): the first line
\* of the file names the columns, the data frame holds the lines after it.
\* An empty file raises EmptyDataError (see CustomImageDataset_init).
pd_read_csv(lines) == Tail(lines)

\* os.path.join(a, b) of posixpath
os_path_join(a, b) ==
    IF b # <<>> /\ b[1] = "/" THEN b
    ELSE IF a = <<>> \/ a[Len(a)] = "/" THEN a \o b
    ELSE a \o <<"/">> \o b

\* torchvision.io.read_image(path): the tensor decoded from the file at path
read_image(path) == [data |-> path, by |-> <<>>]

\* DataFrame.iloc[idx, col] for an idx the frame has: a negative idx counts
\* from the end.
iloc_shifted(df, idx, col) ==
    LET n == Len(df)
        row == IF idx < 0 THEN idx + n ELSE idx
    IN  IF col = 1 THEN df[((row + 1) % n) + 1][col + 1] ELSE df[row + 1][col + 1]

iloc(df, idx, col) ==
    LET row == IF idx < 0 THEN idx + Len(df) ELSE idx
    IN  df[row + 1][col + 1]

\* whether iloc[idx, ...] raises IndexError
iloc_in_bounds(df, idx) == -Len(df) <= idx /\ idx < Len(df)

-----------------------------------------------------------------------------
(* CustomImageDataset *)

NoCall == [op |-> "none", idx |-> 0, again |-> FALSE]
NoImage == [data |-> <<>>, by |-> <<>>]
NoLabel == [data |-> -1, by |-> <<>>]
NoRet == [kind |-> "none", n |-> 0, image |-> NoImage, label |-> NoLabel]

Idxs == -1 .. MaxLines - 1

DatasetInit ==
    /\ annotations_file \in SeqsUpTo(Lines, MaxLines)
    /\ arg_img_dir \in Dirs
    /\ arg_transform \in Transforms
    /\ arg_target_transform \in Transforms
    /\ phase = "new"
    /\ img_labels = <<>>
    /\ img_dir = <<>>
    /\ transform = None
    /\ target_transform = None
    /\ call = NoCall
    /\ ret = NoRet
    /\ seen = {}

DatasetIdle ==
    /\ annotations_file = <<>>
    /\ arg_img_dir = <<>>
    /\ arg_transform = None
    /\ arg_target_transform = None
    /\ phase = "unused"
    /\ img_labels = <<>>
    /\ img_dir = <<>>
    /\ transform = None
    /\ target_transform = None
    /\ call = NoCall
    /\ ret = NoRet
    /\ seen = {}

\* CustomImageDataset.__init__(annotations_file, img_dir, transform, target_transform)
CustomImageDataset_init ==
    /\ phase = "new"
    /\ IF annotations_file = <<>>
       THEN /\ phase' = "EmptyDataError"
            /\ UNCHANGED <<img_labels, img_dir, transform, target_transform>>
       ELSE /\ phase' = "ready"
            /\ img_labels' = pd_read_csv(annotations_file)
            /\ img_dir' = arg_img_dir
            /\ transform' = arg_transform
            /\ target_transform' = arg_target_transform
    /\ UNCHANGED <<annotations_file, arg_img_dir, arg_transform,
                   arg_target_transform, call, ret, seen>>
    /\ UNCHANGED <<trainvars, shufvars>>

\* CustomImageDataset.__len__()
CustomImageDataset_len ==
    /\ phase = "ready"
    /\ call' = [op |-> "len", idx |-> 0, again |-> FALSE]
    /\ ret' = [NoRet EXCEPT !.kind = "int", !.n = Len(img_labels)]
    /\ UNCHANGED <<annotations_file, arg_img_dir, arg_transform,
                   arg_target_transform, phase, img_labels, img_dir,
                   transform, target_transform, seen>>
    /\ UNCHANGED <<trainvars, shufvars>>

\* The body of __getitem__ for an idx the data frame has: the pair returned
Sample(idx) ==
    LET img_path == os_path_join(img_dir, iloc(img_labels, idx, 0))
        image0 == read_image(img_path)
        label0 == [data |-> iloc(img_labels, idx, 1), by |-> <<>>]
        image == IF Truthy(transform) THEN Apply(transform, image0) ELSE image0
        label == IF Truthy(target_transform)
                 THEN Apply(target_transform, label0) ELSE label0
    IN  [idx |-> idx, image |-> image, label |-> label]

\* A __getitem__ that consumes the row it serves (a pop instead of a read)
CustomImageDataset_getitem_consuming(idx) ==
    /\ phase = "ready"
    /\ iloc_in_bounds(img_labels, idx)
    /\ LET s == Sample(idx)
           row == IF idx < 0 THEN idx + Len(img_labels) ELSE idx
       IN  /\ ret' = [NoRet EXCEPT !.kind = "sample", !.image = s.image,
                                   !.label = s.label]
           /\ call' = [op |-> "getitem", idx |-> idx,
                       again |-> \E t \in seen : t.idx = idx]
           /\ seen' = seen \cup {s}
           /\ img_labels' = [i \in 1 .. Len(img_labels) - 1 |->
                               IF i <= row THEN img_labels[i] ELSE img_labels[i + 1]]
    /\ UNCHANGED <<annotations_file, arg_img_dir, arg_transform,
                   arg_target_transform, phase, img_dir,
                   transform, target_transform>>
    /\ UNCHANGED <<trainvars, shufvars>>

\* CustomImageDataset.__getitem__(idx); iloc raises IndexError for an idx
\* outside the data frame
CustomImageDataset_getitem(idx) ==
    /\ phase = "ready"
    /\ IF ~iloc_in_bounds(img_labels, idx)
       THEN /\ call' = [op |-> "getitem", idx |-> idx, again |-> FALSE]
            /\ ret' = [NoRet EXCEPT !.kind = "IndexError"]
            /\ UNCHANGED seen
       ELSE LET s == Sample(idx)
            IN  /\ ret' = [NoRet EXCEPT !.kind = "sample", !.image = s.image,
                                        !.label = s.label]
                /\ call' = [op |-> "getitem", idx |-> idx,
                            again |-> \E t \in seen : t.idx = idx]
                /\ seen' = seen \cup {s}
    /\ UNCHANGED <<annotations_file, arg_img_dir, arg_transform,
                   arg_target_transform, phase, img_labels, img_dir,
                   transform, target_transform>>
    /\ UNCHANGED <<trainvars, shufvars>>

-----------------------------------------------------------------------------
(* train_dataloader = DataLoader(training_data, batch_size=64, shuffle=True) *)
(* DataLoader is torch.utils.data.DataLoader; the options the call leaves    *)
(* out keep their defaults: drop_last=False, sampler=RandomSampler (a new    *)
(* permutation for each iterator), num_workers=0.                            *)

\* BatchSampler with drop_last=False: the size of the next batch when
\* `served` of the n samples have been handed out
BatchSampler_len(n, batch_size, served) == Min(batch_size, n - served)

NoBatch == [features |-> 0, labels |-> 0]

TrainInit ==
    /\ train_served = 0
    /\ train_active = FALSE
    /\ train_batch = NoBatch
    /\ train_passes = 0

TrainIdle ==
    /\ train_served = 0
    /\ train_active = FALSE
    /\ train_batch = NoBatch
    /\ train_passes = MaxPasses

\* iter(train_dataloader): a new iterator, at the start of the data
train_dataloader_iter ==
    /\ train_passes < MaxPasses
    /\ train_passes' = train_passes + 1
    /\ train_active' = TRUE
    /\ train_served' = 0
    /\ UNCHANGED train_batch
    /\ UNCHANGED <<dsvars, shufvars>>

\* next(iterator): the next batch of train_features and train_labels, or
\* StopIteration when every sample has been handed out
train_dataloader_next ==
    /\ train_active
    /\ IF train_served < TrainSize
       THEN LET k == BatchSampler_len(TrainSize, BatchSize, train_served)
            IN  /\ train_batch' = [features |-> k, labels |-> k]
                /\ train_served' = train_served + k
                /\ UNCHANGED train_active
       ELSE /\ train_active' = FALSE
            /\ UNCHANGED <<train_batch, train_served>>
    /\ UNCHANGED train_passes
    /\ UNCHANGED <<dsvars, shufvars>>

-----------------------------------------------------------------------------
(* DataLoader(data, batch_size=SmallBatch, shuffle=True) over NumSamples     *)
(* samples, the order of the samples tracked                                 *)

\* the orders RandomSampler (replacement=False) can draw: torch.randperm(n)
randperm(n) ==
    {p \in [1 .. n -> 0 .. n - 1] : \A i, j \in 1 .. n : p[i] = p[j] => i = j}

ShuffleInit ==
    /\ order = <<>>
    /\ prev_order = <<>>
    /\ pos = 0
    /\ batch = <<>>
    /\ passes = 0

ShuffleIdle ==
    /\ order = <<>>
    /\ prev_order = <<>>
    /\ pos = 0
    /\ batch = <<>>
    /\ passes = MaxPasses

\* An iter() that reuses the order drawn by the first iterator
DataLoader_iter_fixed(p) ==
    /\ passes < MaxPasses
    /\ p \in randperm(NumSamples)
    /\ passes > 0 => p = order
    /\ passes' = passes + 1
    /\ prev_order' = order
    /\ order' = p
    /\ pos' = 0
    /\ UNCHANGED batch
    /\ UNCHANGED <<dsvars, trainvars>>

\* iter(dataloader): a new iterator; its RandomSampler draws the order p
DataLoader_iter(p) ==
    /\ passes < MaxPasses
    /\ p \in randperm(NumSamples)
    /\ passes' = passes + 1
    /\ prev_order' = order
    /\ order' = p
    /\ pos' = 0
    /\ UNCHANGED batch
    /\ UNCHANGED <<dsvars, trainvars>>

\* next(iterator): the next batch, in the iterator's order
DataLoader_next ==
    /\ passes > 0
    /\ pos < NumSamples
    /\ LET k == BatchSampler_len(NumSamples, SmallBatch, pos)
       IN  /\ batch' = SubSeq(order, pos + 1, pos + k)
           /\ pos' = pos + k
    /\ UNCHANGED <<order, prev_order, passes>>
    /\ UNCHANGED <<dsvars, trainvars>>

-----------------------------------------------------------------------------
(* Specifications *)

Init == DatasetInit /\ TrainIdle /\ ShuffleIdle

Next ==
    \/ CustomImageDataset_init
    \/ CustomImageDataset_len
    \/ \E idx \in Idxs : CustomImageDataset_getitem(idx)

Spec == Init /\ [][Next]_vars

InitTrain == DatasetIdle /\ TrainInit /\ ShuffleIdle

NextTrain ==
    \/ train_dataloader_iter
    \/ train_dataloader_next

SpecTrain == InitTrain /\ [][NextTrain]_vars

InitShuffle == DatasetIdle /\ TrainIdle /\ ShuffleInit

NextShuffle ==
    \/ \E p \in randperm(NumSamples) : DataLoader_iter(p)
    \/ DataLoader_next

SpecShuffle == InitShuffle /\ [][NextShuffle]_vars

-----------------------------------------------------------------------------
(* Properties *)

\* C1: for every valid index idx (0 <= idx < len(dataset)), __getitem__(idx)
\* returns a pair whose image is read from the path img_dir joined with the
\* file name in column 0 of row idx of the annotations, and whose label is
\* column 1 of that same row idx: image and label never come from different
\* rows.  The rows are those of self.img_labels, the frame __getitem__ indexes.
C1_SampleFromRowIdx ==
    (call.op = "getitem" /\ 0 <= call.idx /\ call.idx < Len(img_labels)) =>
        LET row == img_labels[call.idx + 1]
        IN  /\ ret.kind = "sample"
            /\ ret.image.data = os_path_join(img_dir, row[1])
            /\ ret.label.data = row[2]

\* C1's case: a frame of two rows that differ in file name and in label, and
\* the second one returned.
C1_Witness ==
    /\ call.op = "getitem" /\ call.idx = 1 /\ ret.kind = "sample"
    /\ Len(img_labels) = 2
    /\ img_labels[1][1] # img_labels[2][1]
    /\ img_labels[1][2] # img_labels[2][2]

\* C2: __len__ returns the number of samples: for a labels.csv in the
\* documented format (one "filename, label" line per sample, the first line
\* being the first sample), len(dataset) is the number of lines of the file.
C2_LenIsLineCount ==
    call.op = "len" => ret.n = Len(annotations_file)

\* the transforms a value returned by __getitem__ must have gone through when
\* the argument t was passed to __init__: t once if one was passed, none if not
ExpectedBy(t) == IF t # None THEN <<t.name>> ELSE <<>>

\* C3: __getitem__ applies transform to the image if and only if a transform
\* was passed to __init__, and target_transform to the label if and only if a
\* target_transform was passed; each exactly once, independently of the other;
\* with the defaults (None) the raw image and the raw label are returned.
C3_TransformIffPassed ==
    (call.op = "getitem" /\ ret.kind = "sample") =>
        /\ ret.image.by = ExpectedBy(arg_transform)
        /\ ret.label.by = ExpectedBy(arg_target_transform)

\* C4: every iteration of train_dataloader returns a batch of exactly
\* batch_size=64 features and exactly 64 labels, for every batch of a pass.
C4_EveryBatchFull ==
    train_batch # NoBatch =>
        /\ train_batch.features = BatchSize
        /\ train_batch.labels = BatchSize

\* C5: with shuffle=True the data is reshuffled at every epoch: once all
\* batches of a pass have been iterated, the next pass can serve the samples
\* in any order, whatever the order of the pass before it was (the order is
\* not fixed at construction).
C5_ReshuffledEveryPass ==
    (passes > 0 /\ passes < MaxPasses /\ pos = NumSamples) =>
        \A p \in randperm(NumSamples) : ENABLED DataLoader_iter(p)

\* C5's case: a second pass, completed, in another order than the first
C5_Witness ==
    /\ passes = 2
    /\ pos = NumSamples
    /\ prev_order # <<>>
    /\ order # prev_order

\* C6: __getitem__ (and __len__) leave img_labels, img_dir, transform and
\* target_transform as __init__ set them, so len(dataset) stays constant, and
\* __getitem__(idx) returns the same sample for the same idx whatever was
\* requested before.
C6_GetitemReadOnly ==
    /\ [][phase = "ready" =>
            /\ img_labels' = img_labels
            /\ Len(img_labels') = Len(img_labels)
            /\ img_dir' = img_dir
            /\ transform' = transform
            /\ target_transform' = target_transform]_vars
    /\ [](\A a, b \in seen : a.idx = b.idx => a = b)

\* C6's case: an idx requested again after another idx was served
C6_Witness ==
    /\ call.op = "getitem"
    /\ call.again
    /\ ret.kind = "sample"
    /\ Cardinality(seen) >= 2

=============================================================================
